---- MODULE Spec2Model ----
(***************************************************************************)
(* Model of mongoalchemy/update_expression.py: the UpdateExpression        *)
(* builder, its operator methods, the four _atomic_* helpers, the flags    *)
(* and execute().                                                          *)
(*                                                                         *)
(* Python values are tagged pairs <<tag, payload>> so that str, int, bool, *)
(* list and tuple values stay distinguishable.  A dict is a function.      *)
(***************************************************************************)
EXTENDS Integers, Sequences, FiniteSets, TLC

VARIABLES
  query,        \* self.query
  update_data,  \* self.update_data: operator -> (field path -> value)
  __upsert,     \* self.__upsert
  __multi,      \* self.__multi
  sent,         \* what session.execute_update has been handed, in order
  last,         \* the latest call: method, field, arguments, exception
  lastOn,       \* per (operator, field path): the latest call that stored
  ncalls,       \* number of calls made on the builder
  before        \* update_data as it was when the latest call was made

vars == <<query, update_data, __upsert, __multi, sent, last, lastOn, ncalls, before>>

(* ------------------------------ bounds -------------------------------- *)
MaxCalls == 3
MaxArgs == 2

(* --------------------------- python values ---------------------------- *)
PyStr(s) == <<"str", s>>
PyInt(n) == <<"int", n>>
PyBool(b) == <<"bool", b>>
PyList(s) == <<"list", s>>
PyTuple(s) == <<"tuple", s>>

Tag(v) == v[1]
Payload(v) == v[2]

EmptyDict == [k \in {} |-> TRUE]
DictSet(d, k, v) == [y \in DOMAIN d \cup {k} |-> IF y = k THEN v ELSE d[y]]

(* values a caller may pass *)
RawValues ==
  { PyInt(1), PyInt(2), PyStr("x"), PyTuple(<<PyInt(1)>>), PyList(<<PyStr("x")>>) }

(* values a caller may pass as the items of a variadic call: for each list *)
(* field one item its element type accepts and one it refuses             *)
ItemValues == { PyStr("x"), PyTuple(<<PyInt(1)>>) }

Queries == {"q1"}

RECURSIVE SeqsUpTo(_, _)
SeqsUpTo(S, n) ==
  IF n = 0 THEN {<<>>}
  ELSE LET shorter == SeqsUpTo(S, n - 1)
       IN shorter \cup {Append(s, v) : s \in {t \in shorter : Len(t) = n - 1}, v \in S}

(* ----------------- field types (mongoalchemy.fields) ------------------ *)
ListModifiers ==
  {"$push", "$pushAll", "$pull", "$pullAll", "$addToSet", "$pop", "$set", "$unset"}
NumberModifiers == {"$set", "$unset", "$inc"}
SetModifiers == {"$set", "$unset", "$addToSet", "$pull", "$pullAll"}

StringField == [kind |-> "StringField"]
IntField == [kind |-> "IntField"]
TupleOfInt == [kind |-> "TupleField"]
ListOfString == [kind |-> "ListField", item |-> "StringField"]
SetOfTuple == [kind |-> "SetField", item |-> "TupleField"]

valid_modifiers(type) ==
  CASE type.kind = "ListField" -> ListModifiers
    [] type.kind = "SetField" -> SetModifiers
    [] type.kind = "IntField" -> NumberModifiers
    [] OTHER -> {"$set", "$unset"}

child_type(type) ==
  IF type.item = "StringField" THEN StringField ELSE TupleOfInt

Wrapped(v) == [ok |-> TRUE, val |-> v]
BadValue == [ok |-> FALSE, val |-> PyBool(FALSE)]

(* encoder of a scalar or tuple type *)
wrap_item(type, v) ==
  CASE type.kind = "StringField" ->
         IF Tag(v) = "str" THEN Wrapped(v) ELSE BadValue
    [] type.kind = "IntField" ->
         IF Tag(v) = "int" THEN Wrapped(v) ELSE BadValue
    [] type.kind = "TupleField" ->
         IF Tag(v) = "tuple" /\ \A i \in DOMAIN Payload(v) : Tag(Payload(v)[i]) = "int"
         THEN Wrapped(PyList(Payload(v))) ELSE BadValue
    [] OTHER -> BadValue

(* encoder of any type: a list type takes a list, a set type a set, and    *)
(* both encode each element with their item type into a list              *)
wrap(type, v) ==
  IF type.kind \in {"ListField", "SetField"}
  THEN IF Tag(v) = (IF type.kind = "ListField" THEN "list" ELSE "set")
          /\ \A i \in DOMAIN Payload(v) : wrap_item(child_type(type), Payload(v)[i]).ok
       THEN Wrapped(PyList([i \in DOMAIN Payload(v) |->
                              wrap_item(child_type(type), Payload(v)[i]).val]))
       ELSE BadValue
  ELSE wrap_item(type, v)

(* query fields: QueryField.get_name() and QueryField.get_type() *)
QFields ==
  { [name |-> "tags", type |-> ListOfString],
    [name |-> "count", type |-> IntField],
    [name |-> "pairs", type |-> SetOfTuple] }

get_name(qfield) == qfield.name
get_type(qfield) == qfield.type

(* ------------------------- the _atomic_ helpers ----------------------- *)
(* what a helper leaves behind: update_data, the exception raised if any, *)
(* and the number of wrap() calls it made                                 *)
Return(ud, n) == [update_data |-> ud, raised |-> "none", wraps |-> n]
Raise(ud, exc, n) == [update_data |-> ud, raised |-> exc, wraps |-> n]

OpDict(ud, op) == IF op \notin DOMAIN ud THEN DictSet(ud, op, EmptyDict) ELSE ud
Store(ud, op, name, v) == DictSet(ud, op, DictSet(ud[op], name, v))

(* mutant: the validity check is left out *)
_atomic_list_op_multivalue_unchecked(ud, op, qfield, value) ==
  LET bad == {i \in DOMAIN value :
                ~wrap(child_type(get_type(qfield)), value[i]).ok}
  IN IF bad # {}
     THEN Raise(ud, "BadValueException",
                CHOOSE i \in bad : \A j \in bad : i <= j)
     ELSE Return(Store(OpDict(ud, op), op, get_name(qfield), PyTuple(value)),
                 Len(value))

(* mutant: the operator's dict is replaced by a new one on every call *)
_atomic_list_op_multivalue_new_dict(ud, op, qfield, value) ==
  IF op \notin valid_modifiers(get_type(qfield))
  THEN Raise(ud, "InvalidModifierException", 0)
  ELSE LET bad == {i \in DOMAIN value :
                     ~wrap(child_type(get_type(qfield)), value[i]).ok}
       IN IF bad # {}
          THEN Raise(ud, "BadValueException",
                     CHOOSE i \in bad : \A j \in bad : i <= j)
          ELSE Return(Store(DictSet(ud, op, EmptyDict), op, get_name(qfield),
                            PyTuple(value)), Len(value))

(* mutant: a call without values returns before anything is stored *)
_atomic_list_op_multivalue_skip_empty(ud, op, qfield, value) ==
  IF op \notin valid_modifiers(get_type(qfield))
  THEN Raise(ud, "InvalidModifierException", 0)
  ELSE LET bad == {i \in DOMAIN value :
                     ~wrap(child_type(get_type(qfield)), value[i]).ok}
       IN IF bad # {}
          THEN Raise(ud, "BadValueException",
                     CHOOSE i \in bad : \A j \in bad : i <= j)
          ELSE IF value = <<>>
               THEN Return(ud, 0)
               ELSE Return(Store(OpDict(ud, op), op, get_name(qfield),
                                 PyTuple(value)), Len(value))

_atomic_list_op_multivalue(ud, op, qfield, value) ==
  IF op \notin valid_modifiers(get_type(qfield))
  THEN Raise(ud, "InvalidModifierException", 0)
  ELSE LET bad == {i \in DOMAIN value :
                     ~wrap(child_type(get_type(qfield)), value[i]).ok}
       IN IF bad # {}
          THEN Raise(ud, "BadValueException",
                     CHOOSE i \in bad : \A j \in bad : i <= j)
          ELSE Return(Store(OpDict(ud, op), op, get_name(qfield), PyTuple(value)),
                      Len(value))

(* mutant: the operator's dict is created before the validity check *)
_atomic_list_op_dict_first(ud, op, qfield, value) ==
  IF op \notin valid_modifiers(get_type(qfield))
  THEN Raise(OpDict(ud, op), "InvalidModifierException", 0)
  ELSE LET w == wrap(child_type(get_type(qfield)), value)
       IN IF ~w.ok
          THEN Raise(OpDict(ud, op), "BadValueException", 1)
          ELSE Return(Store(OpDict(ud, op), op, get_name(qfield), w.val), 1)

(* mutant: the value is encoded by the field's own type, not its child type *)
_atomic_list_op_own_type(ud, op, qfield, value) ==
  IF op \notin valid_modifiers(get_type(qfield))
  THEN Raise(ud, "InvalidModifierException", 0)
  ELSE LET w == wrap(get_type(qfield), value)
       IN IF ~w.ok
          THEN Raise(OpDict(ud, op), "BadValueException", 1)
          ELSE Return(Store(OpDict(ud, op), op, get_name(qfield), w.val), 1)

_atomic_list_op(ud, op, qfield, value) ==
  IF op \notin valid_modifiers(get_type(qfield))
  THEN Raise(ud, "InvalidModifierException", 0)
  ELSE LET w == wrap(child_type(get_type(qfield)), value)
       IN IF ~w.ok
          THEN Raise(OpDict(ud, op), "BadValueException", 1)
          ELSE Return(Store(OpDict(ud, op), op, get_name(qfield), w.val), 1)

(* mutant: the value is wrapped before the validity check *)
_atomic_op_wrap_first(ud, op, qfield, value) ==
  LET w == wrap(get_type(qfield), value)
  IN IF ~w.ok
     THEN Raise(ud, "BadValueException", 1)
     ELSE IF op \notin valid_modifiers(get_type(qfield))
          THEN Raise(ud, "InvalidModifierException", 1)
          ELSE Return(Store(OpDict(ud, op), op, get_name(qfield), w.val), 1)

(* mutant: the operator's dict is replaced by a new one on every call *)
_atomic_op_new_dict(ud, op, qfield, value) ==
  IF op \notin valid_modifiers(get_type(qfield))
  THEN Raise(ud, "InvalidModifierException", 0)
  ELSE LET w == wrap(get_type(qfield), value)
           fresh == DictSet(ud, op, EmptyDict)
       IN IF ~w.ok
          THEN Raise(fresh, "BadValueException", 1)
          ELSE Return(Store(fresh, op, get_name(qfield), w.val), 1)

_atomic_op(ud, op, qfield, value) ==
  IF op \notin valid_modifiers(get_type(qfield))
  THEN Raise(ud, "InvalidModifierException", 0)
  ELSE LET w == wrap(get_type(qfield), value)
       IN IF ~w.ok
          THEN Raise(OpDict(ud, op), "BadValueException", 1)
          ELSE Return(Store(OpDict(ud, op), op, get_name(qfield), w.val), 1)

(* mutant: the operator's dict is replaced by a new one on every call *)
_atomic_generic_op_new_dict(ud, op, qfield, value) ==
  IF op \notin valid_modifiers(get_type(qfield))
  THEN Raise(ud, "InvalidModifierException", 0)
  ELSE Return(Store(DictSet(ud, op, EmptyDict), op, get_name(qfield), value), 0)

(* mutant: the validity check is left out *)
_atomic_generic_op_unchecked(ud, op, qfield, value) ==
  Return(Store(OpDict(ud, op), op, get_name(qfield), value), 0)

_atomic_generic_op(ud, op, qfield, value) ==
  IF op \notin valid_modifiers(get_type(qfield))
  THEN Raise(ud, "InvalidModifierException", 0)
  ELSE Return(Store(OpDict(ud, op), op, get_name(qfield), value), 0)

(* --------------------------- operator methods ------------------------- *)
set(ud, qfield, value) == _atomic_op(ud, "$set", qfield, value)

unset(ud, qfield) == _atomic_generic_op(ud, "$unset", qfield, PyBool(TRUE))

(* args is <<>> when the caller leaves value out: it defaults to 1 *)
inc(ud, qfield, args) ==
  _atomic_op(ud, "$inc", qfield, IF args = <<>> THEN PyInt(1) ELSE args[1])

append(ud, qfield, value) == _atomic_list_op(ud, "$push", qfield, value)

extend(ud, qfield, value) ==
  _atomic_list_op_multivalue(ud, "$pushAll", qfield, value)

remove(ud, qfield, value) == _atomic_list_op(ud, "$pull", qfield, value)

remove_all(ud, qfield, value) ==
  _atomic_list_op_multivalue(ud, "$pullAll", qfield, value)

add_to_set(ud, qfield, value) == _atomic_list_op(ud, "$addToSet", qfield, value)

pop_last(ud, qfield) == _atomic_generic_op(ud, "$pop", qfield, PyInt(1))

(* mutant: pop_first passes pop_last's value *)
pop_first_as_last(ud, qfield) == _atomic_generic_op(ud, "$pop", qfield, PyInt(1))

pop_first(ud, qfield) == _atomic_generic_op(ud, "$pop", qfield, PyInt(-1))

OperatorMethods ==
  {"set", "unset", "inc", "append", "extend", "remove", "remove_all",
   "add_to_set", "pop_last", "pop_first"}

(* the call m(qfield, *args) on a builder whose update_data is ud *)
Invoke(ud, m, qfield, args) ==
  CASE m = "set" -> set(ud, qfield, args[1])
    [] m = "unset" -> unset(ud, qfield)
    [] m = "inc" -> inc(ud, qfield, args)
    [] m = "append" -> append(ud, qfield, args[1])
    [] m = "extend" -> extend(ud, qfield, args)
    [] m = "remove" -> remove(ud, qfield, args[1])
    [] m = "remove_all" -> remove_all(ud, qfield, args)
    [] m = "add_to_set" -> add_to_set(ud, qfield, args[1])
    [] m = "pop_last" -> pop_last(ud, qfield)
    [] m = "pop_first" -> pop_first(ud, qfield)

(* the operator name each operator method emits *)
Operator(m) ==
  CASE m = "set" -> "$set"
    [] m = "unset" -> "$unset"
    [] m = "inc" -> "$inc"
    [] m = "append" -> "$push"
    [] m = "extend" -> "$pushAll"
    [] m = "remove" -> "$pull"
    [] m = "remove_all" -> "$pullAll"
    [] m = "add_to_set" -> "$addToSet"
    [] OTHER -> "$pop"

QField(name) == CHOOSE q \in QFields : get_name(q) = name

(* ------------------------------- state -------------------------------- *)
NoCall ==
  [method |-> "none", qfield |-> "", args |-> <<>>, raised |-> "none",
   wraps |-> 0, afterOther |-> FALSE]

NoValue == <<"none", 0>>

Entry(ud, op, name) ==
  IF op \in DOMAIN ud /\ name \in DOMAIN ud[op] THEN ud[op][name] ELSE NoValue

(* the (operator, field path) pair of the call recorded in l, if it stored *)
StoredKey(l) ==
  IF l.method \in OperatorMethods /\ l.raised = "none"
  THEN <<Operator(l.method), l.qfield>> ELSE <<"", "">>

Init ==
  /\ query \in Queries
  /\ update_data = EmptyDict
  /\ __upsert = FALSE
  /\ __multi = FALSE
  /\ sent = <<>>
  /\ last = NoCall
  /\ lastOn = EmptyDict
  /\ ncalls = 0
  /\ before = EmptyDict

(* one call of operator method m: update_data becomes what the method     *)
(* leaves behind, whether it returns or raises                             *)
Call(m, qfield, args) ==
  LET r == Invoke(update_data, m, qfield, args)
      key == <<Operator(m), get_name(qfield)>>
  IN /\ ncalls < MaxCalls
     /\ update_data' = r.update_data
     /\ last' = [method |-> m, qfield |-> get_name(qfield),
                 args |-> IF r.raised = "none" THEN args ELSE <<>>,
                 raised |-> r.raised,
                 wraps |-> r.wraps,
                 afterOther |-> /\ r.raised = "none"
                                /\ StoredKey(last) \notin {<<"", "">>, key}]
     /\ lastOn' =
          IF r.raised = "none"
          THEN DictSet(lastOn, key,
                 [method |-> m, args |-> args])
          ELSE lastOn
     /\ ncalls' = ncalls + 1
     /\ before' = update_data
     /\ UNCHANGED <<query, __upsert, __multi, sent>>

FlagCall(m) ==
  /\ ncalls < MaxCalls
  /\ last' = [method |-> m, qfield |-> "", args |-> <<>>, raised |-> "none",
              wraps |-> 0, afterOther |-> FALSE]
  /\ ncalls' = ncalls + 1
  /\ before' = update_data
  /\ UNCHANGED <<query, update_data, lastOn>>

(* mutant: upsert() flips the flag *)
upsert_toggles ==
  /\ FlagCall("upsert")
  /\ __upsert' = ~__upsert
  /\ UNCHANGED <<__multi, sent>>

upsert ==
  /\ FlagCall("upsert")
  /\ __upsert' = TRUE
  /\ UNCHANGED <<__multi, sent>>

(* mutant: multi() also turns the upsert flag on *)
multi_sets_both ==
  /\ FlagCall("multi")
  /\ __multi' = TRUE
  /\ __upsert' = TRUE
  /\ UNCHANGED sent

multi ==
  /\ FlagCall("multi")
  /\ __multi' = TRUE
  /\ UNCHANGED <<__upsert, sent>>

call_set == \E qfield \in QFields, value \in RawValues : Call("set", qfield, <<value>>)

call_unset == \E qfield \in QFields : Call("unset", qfield, <<>>)

call_inc == \E qfield \in QFields, args \in SeqsUpTo(RawValues, 1) : Call("inc", qfield, args)

call_append == \E qfield \in QFields, value \in RawValues : Call("append", qfield, <<value>>)

call_extend ==
  \E qfield \in QFields, value \in SeqsUpTo(ItemValues, MaxArgs) :
    Call("extend", qfield, value)

call_remove == \E qfield \in QFields, value \in RawValues : Call("remove", qfield, <<value>>)

call_remove_all ==
  \E qfield \in QFields, value \in SeqsUpTo(ItemValues, MaxArgs) :
    Call("remove_all", qfield, value)

call_add_to_set ==
  \E qfield \in QFields, value \in RawValues : Call("add_to_set", qfield, <<value>>)

call_pop_last == \E qfield \in QFields : Call("pop_last", qfield, <<>>)

call_pop_first == \E qfield \in QFields : Call("pop_first", qfield, <<>>)

(* mutant: the getter reads the other flag *)
get_upsert_reads_multi == __multi

get_upsert == __upsert
get_multi == __multi

(* Session.execute_update(ex): what the session reads off the builder *)
execute_update(q, ud, up, mu) ==
  [query |-> q, update_data |-> ud, upsert |-> up, multi |-> mu]

execute ==
  /\ FlagCall("execute")
  /\ sent' = Append(sent, execute_update(query, update_data, get_upsert, get_multi))
  /\ UNCHANGED <<__upsert, __multi>>

Next ==
  \/ upsert
  \/ multi
  \/ call_set
  \/ call_unset
  \/ call_inc
  \/ call_append
  \/ call_extend
  \/ call_remove
  \/ call_remove_all
  \/ call_add_to_set
  \/ call_pop_last
  \/ call_pop_first
  \/ execute

Spec == Init /\ [][Next]_vars

(* ------------------------------ claims -------------------------------- *)
LastType == get_type(QField(last.qfield))

(* C1: an operator method call is rejected with InvalidModifierException   *)
(* if and only if the operator name it emits is not in the valid-modifier  *)
(* set of the field's type; with the operator in the set the validity      *)
(* check does not raise.                                                   *)
C1_RejectedIffInvalid ==
  last.method \in OperatorMethods =>
    ( last.raised = "InvalidModifierException"
      <=> Operator(last.method) \notin valid_modifiers(LastType) )

(* a call rejected on a builder that already holds entries *)
C1_Witness ==
  /\ last.raised = "InvalidModifierException"
  /\ \E op \in DOMAIN update_data : DOMAIN update_data[op] # {}

(* C2: a call rejected with InvalidModifierException leaves update_data,   *)
(* both flags and what the session received exactly as before the call; in *)
(* particular append on the numeric field of a fresh builder leaves        *)
(* update_data empty.                                                      *)
C2_RejectedLeavesBuilder ==
  [][ last'.raised = "InvalidModifierException" =>
        /\ update_data' = update_data
        /\ __upsert' = __upsert
        /\ __multi' = __multi
        /\ sent' = sent ]_vars

(* append(count, 1) rejected as the first call on a fresh builder *)
C2_Witness ==
  /\ ncalls = 1
  /\ last.method = "append"
  /\ last.qfield = "count"
  /\ last.raised = "InvalidModifierException"
  /\ update_data = EmptyDict

(* C3: an operator call whose operator is valid for the field, on a field  *)
(* path that already has an entry under a different operator, fails with   *)
(* ConflictingModifierException and leaves update_data and the flags as    *)
(* they were.                                                              *)
C3_ConflictRejected ==
  [][ ( /\ last'.method \in OperatorMethods
        /\ Operator(last'.method) \in
             valid_modifiers(get_type(QField(last'.qfield)))
        /\ \E other \in DOMAIN update_data :
             /\ other # Operator(last'.method)
             /\ last'.qfield \in DOMAIN update_data[other] )
      => /\ last'.raised = "ConflictingModifierException"
         /\ update_data' = update_data
         /\ __upsert' = __upsert
         /\ __multi' = __multi ]_vars

(* C4: in every reachable state each field path appears under at most one  *)
(* operator key of update_data.                                            *)
C4_OneOperatorPerField ==
  \A op1 \in DOMAIN update_data, op2 \in DOMAIN update_data :
    (DOMAIN update_data[op1] \cap DOMAIN update_data[op2] # {}) => op1 = op2

(* the element encoder of the latest call's field, applied to each argument *)
EncodedItems(args) ==
  [i \in DOMAIN args |-> wrap(child_type(LastType), args[i]).val]

(* C5: after a successful extend or remove_all the stored entry holds the  *)
(* sequence of the individually encoded arguments, in call order.          *)
C5_VariadicFidelity ==
  (last.method \in {"extend", "remove_all"} /\ last.raised = "none") =>
    Payload(update_data[Operator(last.method)][last.qfield])
      = EncodedItems(last.args)

(* C7: once execute() has been called no later call changes update_data or *)
(* the flags, and nothing is handed to the session again.                  *)
C7_ExecuteFinalizes ==
  [][ Len(sent) > 0 =>
        /\ update_data' = update_data
        /\ __upsert' = __upsert
        /\ __multi' = __multi
        /\ sent' = sent ]_vars

(* what the call recorded in rec, made alone on a new builder, stores for  *)
(* the pair (op, f)                                                        *)
StoredAlone(rec, op, f) ==
  Entry(Invoke(EmptyDict, rec.method, QField(f), rec.args).update_data, op, f)

(* the entries of ud are exactly those of the latest successful call on    *)
(* each (operator, field path) pair                                        *)
LatestWrites(ud) ==
  /\ \A key \in DOMAIN lastOn :
       /\ Entry(ud, key[1], key[2]) # NoValue
       /\ Entry(ud, key[1], key[2]) = StoredAlone(lastOn[key], key[1], key[2])
  /\ \A op \in DOMAIN ud : \A f \in DOMAIN ud[op] : <<op, f>> \in DOMAIN lastOn

(* C6: for every (operator, field path) pair written by successful calls,  *)
(* update_data holds one entry, equal to what the latest of those calls    *)
(* stores, whatever calls on other pairs came in between; and it holds no  *)
(* entry that no successful call wrote.                                    *)
C6_LastWriteWins == LatestWrites(update_data)

(* a pair written, then another pair written, then the first pair written  *)
(* again with a different value                                            *)
C6_Witness ==
  /\ last.afterOther
  /\ StoredKey(last) \in DOMAIN lastOn
  /\ Entry(before, StoredKey(last)[1], last.qfield) # NoValue
  /\ Entry(before, StoredKey(last)[1], last.qfield)
       # Entry(update_data, StoredKey(last)[1], last.qfield)

(* C8: execute() hands the session the query, update_data as the           *)
(* successful operator calls left it and the two flags, and changes none   *)
(* of them; append(tags, "x") then execute() on a new builder hands over   *)
(* {"$push": {"tags": "x"}} with upsert and multi false.                   *)
C8_ExecuteHandsState ==
  [][ last'.method = "execute" =>
        LET cmd == sent'[Len(sent')]
        IN /\ Len(sent') = Len(sent) + 1
           /\ SubSeq(sent', 1, Len(sent)) = sent
           /\ cmd.query = query
           /\ cmd.update_data = update_data
           /\ LatestWrites(cmd.update_data)
           /\ cmd.upsert = __upsert
           /\ cmd.multi = __multi
           /\ update_data' = update_data
           /\ __upsert' = __upsert
           /\ __multi' = __multi
           /\ ( ( /\ ncalls = 1
                  /\ last.method = "append"
                  /\ last.qfield = "tags"
                  /\ last.args = <<PyStr("x")>> )
                => cmd = [query |-> query,
                          update_data |-> ("$push" :> ("tags" :> PyStr("x"))),
                          upsert |-> FALSE, multi |-> FALSE] ) ]_vars

(* execute() after at least one flag call and one stored entry *)
C8_Witness ==
  /\ last.method = "execute"
  /\ sent[Len(sent)].upsert # sent[Len(sent)].multi
  /\ DOMAIN lastOn # {}

(* C9: both flags start false; upsert() sets only the upsert flag, multi() *)
(* only the multi flag, neither touches update_data, and no other call     *)
(* changes a flag, so each flag is true exactly when its setter was called *)
(* at least once.                                                          *)
C9_FlagIndependence ==
  /\ (~__upsert /\ ~__multi)
  /\ [][ /\ __upsert' = (__upsert \/ last'.method = "upsert")
         /\ __multi' = (__multi \/ last'.method = "multi")
         /\ last'.method \in {"upsert", "multi"} => update_data' = update_data
     ]_vars

(* upsert() called, multi() not, and an operator call stored afterwards *)
C9_Witness ==
  /\ __upsert
  /\ ~__multi
  /\ last.method \in OperatorMethods
  /\ last.raised = "none"

(* C10: a successful set / inc stores the value encoded by the field       *)
(* type's own encoder under $set / $inc (inc with 1 when no value is       *)
(* given); a successful append / remove / add_to_set stores the value      *)
(* encoded by the child type's encoder under $push / $pull / $addToSet;    *)
(* no operator method changes the mapping of another operator key.         *)
C10_SingleValueEncoding ==
  [][ last'.method \in OperatorMethods =>
        LET m == last'.method
            f == last'.qfield
            T == get_type(QField(f))
            own == CASE m = "set" -> "$set"
                     [] m = "inc" -> "$inc"
                     [] m = "append" -> "$push"
                     [] m = "remove" -> "$pull"
                     [] m = "add_to_set" -> "$addToSet"
                     [] OTHER -> Operator(m)
            v == IF m = "inc" /\ last'.args = <<>> THEN PyInt(1) ELSE last'.args[1]
        IN /\ (last'.raised = "none" /\ m \in {"set", "inc"})
                => update_data'[own][f] = wrap(T, v).val
           /\ (last'.raised = "none" /\ m \in {"append", "remove", "add_to_set"})
                => update_data'[own][f] = wrap(child_type(T), v).val
           /\ \A op \in (DOMAIN update_data \cup DOMAIN update_data') \ {own} :
                /\ op \in DOMAIN update_data
                /\ op \in DOMAIN update_data'
                /\ update_data'[op] = update_data[op] ]_vars

(* inc(count) without a value stored 1 beside an entry of another operator *)
C10_Witness ==
  /\ last.method = "inc"
  /\ last.args = <<>>
  /\ last.raised = "none"
  /\ Entry(update_data, "$inc", "count") = PyInt(1)
  /\ \E op \in DOMAIN update_data \ {"$inc"} : DOMAIN update_data[op] # {}

(* C11: a successful unset stores True under $unset, pop_last stores 1 and *)
(* pop_first stores -1 under $pop, whatever the field, its encoder and the *)
(* entries already there; none of the three calls wrap().                  *)
C11_Sentinels ==
  (last.method \in {"unset", "pop_last", "pop_first"}) =>
    /\ last.wraps = 0
    /\ last.raised = "none" =>
         /\ last.method = "unset" =>
              Entry(update_data, "$unset", last.qfield) = PyBool(TRUE)
         /\ last.method = "pop_last" =>
              Entry(update_data, "$pop", last.qfield) = PyInt(1)
         /\ last.method = "pop_first" =>
              Entry(update_data, "$pop", last.qfield) = PyInt(-1)

(* pop_first on a field whose $pop entry was pop_last's 1 *)
C11_Witness ==
  /\ last.method = "pop_first"
  /\ last.raised = "none"
  /\ Entry(before, "$pop", last.qfield) = PyInt(1)
  /\ Entry(update_data, "$pop", last.qfield) = PyInt(-1)

(* C12: in every reachable state, extend or remove_all called with no      *)
(* values on a field whose type permits the operator returns normally and  *)
(* leaves an entry for the field under the operator, holding an empty      *)
(* sequence.                                                               *)
C12_ZeroValues ==
  \A qfield \in QFields, m \in {"extend", "remove_all"} :
    Operator(m) \in valid_modifiers(get_type(qfield)) =>
      LET r == Invoke(update_data, m, qfield, <<>>)
      IN /\ r.raised = "none"
         /\ Entry(r.update_data, Operator(m), get_name(qfield)) # NoValue
         /\ Payload(Entry(r.update_data, Operator(m), get_name(qfield))) = <<>>

(* extend without values replaced an entry that held values *)
C12_Witness ==
  /\ last.method = "extend"
  /\ last.raised = "none"
  /\ last.args = <<>>
  /\ Entry(before, "$pushAll", last.qfield) # NoValue
  /\ Payload(Entry(before, "$pushAll", last.qfield)) # <<>>
  /\ Payload(Entry(update_data, "$pushAll", last.qfield)) = <<>>

(* C13: an operator call whose operator the field's type does not permit   *)
(* is rejected before wrap() is called: it raises InvalidModifierException *)
(* having made no wrap call, for none of its values.                       *)
C13_ValidationFirst ==
  ( /\ last.method \in OperatorMethods
    /\ \/ last.raised = "InvalidModifierException"
       \/ Operator(last.method) \notin valid_modifiers(LastType) )
  => last.wraps = 0

(* add_to_set, which always carries a value, rejected on the numeric field *)
(* of a builder that holds entries                                         *)
C13_Witness ==
  /\ last.method = "add_to_set"
  /\ last.qfield = "count"
  /\ last.raised = "InvalidModifierException"
  /\ last.wraps = 0
  /\ DOMAIN lastOn # {}

AllOperators == ListModifiers \cup NumberModifiers \cup SetModifiers
AllNames == {get_name(q) : q \in QFields}

(* C14: a successful operator call with operator op on field path f leaves *)
(* every entry other than update_data[op][f] as it was, adds no operator   *)
(* key other than op and removes none, and leaves query and both flags     *)
(* unchanged.                                                              *)
C14_SuccessFrame ==
  [][ (last'.method \in OperatorMethods /\ last'.raised = "none") =>
        LET op == Operator(last'.method)
            f == last'.qfield
        IN /\ \A op2 \in AllOperators, f2 \in AllNames :
                <<op2, f2>> # <<op, f>> =>
                  Entry(update_data', op2, f2) = Entry(update_data, op2, f2)
           /\ DOMAIN update_data' = DOMAIN update_data \cup {op}
           /\ query' = query
           /\ __upsert' = __upsert
           /\ __multi' = __multi ]_vars

(* a successful call on a builder with another entry and the multi flag set *)
C14_Witness ==
  /\ last.method \in OperatorMethods
  /\ last.raised = "none"
  /\ __multi
  /\ \E key \in DOMAIN lastOn :
       /\ key # StoredKey(last)
       /\ Entry(before, key[1], key[2]) # NoValue

(* C15: when wrap() raises in set, inc, append, remove, add_to_set, extend *)
(* or remove_all, update_data after the failed call equals update_data     *)
(* before it, so that in every reachable state every operator key of       *)
(* update_data has at least one field entry.                               *)
C15_EncoderFailureAtomic ==
  /\ [](\A op \in DOMAIN update_data : DOMAIN update_data[op] # {})
  /\ [][ last'.raised = "BadValueException" => update_data' = update_data ]_vars

WellTyped(ud) ==
  \A op \in DOMAIN ud : \A f \in DOMAIN ud[op] :
    op \in valid_modifiers(get_type(QField(f)))

(* C16: in every reachable state every entry update_data[op][f] has op in  *)
(* the valid modifiers of f's type, and so has every entry of every        *)
(* command handed to the session.                                          *)
C16_WellTypedCommand ==
  /\ WellTyped(update_data)
  /\ \A i \in DOMAIN sent : WellTyped(sent[i].update_data)

(* a command with entries was handed over and a later call was rejected *)
C16_Witness ==
  /\ Len(sent) > 0
  /\ \E op \in DOMAIN sent[Len(sent)].update_data :
       DOMAIN sent[Len(sent)].update_data[op] # {}
  /\ last.raised = "InvalidModifierException"

(* C17: two successive successful operator calls on different (operator,   *)
(* field path) pairs, made in the opposite order from the state before the *)
(* first, both succeed and leave the same update_data; the flags are       *)
(* unchanged either way; and update_data is determined by the latest       *)
(* successful call on each pair.                                           *)
C17_OrderIndependence ==
  [][ last'.afterOther =>
        LET second == Invoke(before, last'.method, QField(last'.qfield), last'.args)
            both == Invoke(second.update_data, last.method,
                           QField(last.qfield), last.args)
        IN /\ second.raised = "none"
           /\ both.raised = "none"
           /\ both.update_data = update_data'
           /\ __upsert' = __upsert
           /\ __multi' = __multi
           /\ LatestWrites(update_data)' ]_vars

(* two successive successful calls with the same operator on two fields *)
C17_Witness ==
  /\ last.afterOther
  /\ \E key \in DOMAIN lastOn :
       /\ key[1] = StoredKey(last)[1]
       /\ key[2] # StoredKey(last)[2]
       /\ Entry(before, key[1], key[2]) # NoValue
       /\ Entry(before, key[1], last.qfield) = NoValue

Pairs(ud) == UNION {{<<op, f>> : f \in DOMAIN ud[op]} : op \in DOMAIN ud}

(* C18: no call removes an (operator, field path) pair from update_data    *)
(* or an operator key, and no call turns a flag that is true back to       *)
(* false.                                                                  *)
C18_MonotoneAccumulation ==
  [][ /\ Pairs(update_data) \subseteq Pairs(update_data')
      /\ DOMAIN update_data \subseteq DOMAIN update_data'
      /\ __upsert => __upsert'
      /\ __multi => __multi' ]_vars

(* an entry was overwritten, not removed, on a builder whose upsert flag   *)
(* is set                                                                  *)
C18_Witness ==
  /\ __upsert
  /\ last.method \in OperatorMethods
  /\ last.raised = "none"
  /\ Entry(before, Operator(last.method), last.qfield) # NoValue
  /\ Pairs(before) = Pairs(update_data)
====
